---- MODULE Spec2Model ----
(***************************************************************************)
(* The Model handle of ml_platform_sdk/models.py: construction, register,  *)
(* download, unregister, unregister_all_versions, explain and deploy, with *)
(* the object-storage sync routines (_upload_tos, _download_tos) they use. *)
(*                                                                         *)
(* Strings are sequences of one-character strings, so that formatting,     *)
(* parsing, prefix matching and path arithmetic are computed as the code   *)
(* computes them.  A python None is the value None.                        *)
(***************************************************************************)
EXTENDS Integers, Sequences, FiniteSets, TLC

\* None where a string is expected (strings are sequences), and where a
\* number is expected (model versions and version ids start at 1)
None == <<"None">>
NoneNum == 0

(***************************************************************************)
(* Bounds of the model.                                                    *)
(***************************************************************************)
\* the number of calls made on the handle, its construction included
MaxOps == 4
\* the largest number of entries the object store puts on one page of a
\* listing (it stands for max_keys = 1000, scaled to the small trees here)
MaxPage == 2
\* a remote call is made to fail at position 1..MaxFail of an operation
MaxFail == 5

(***************************************************************************)
(* Characters and their order (ASCII), python str operations.              *)
(***************************************************************************)
Ord(ch) ==
    CASE ch = "." -> 46
      [] ch = "/" -> 47
      [] ch = "2" -> 50
      [] ch = ":" -> 58
      [] ch = "a" -> 97
      [] ch = "b" -> 98
      [] ch = "c" -> 99
      [] ch = "d" -> 100
      [] ch = "k" -> 107
      [] ch = "m" -> 109
      [] ch = "n" -> 110
      [] ch = "o" -> 111
      [] ch = "p" -> 112
      [] ch = "s" -> 115
      [] ch = "t" -> 116
      [] ch = "w" -> 119
      [] ch = "x" -> 120

\* s < t in python's (and the object store's) string order
RECURSIVE StrLess(_, _)
StrLess(s, t) ==
    IF t = <<>> THEN FALSE
    ELSE IF s = <<>> THEN TRUE
    ELSE IF Ord(Head(s)) # Ord(Head(t)) THEN Ord(Head(s)) < Ord(Head(t))
    ELSE StrLess(Tail(s), Tail(t))

StartsWith(s, p) == Len(p) <= Len(s) /\ SubSeq(s, 1, Len(p)) = p

EndsWith(s, p) ==
    Len(p) <= Len(s) /\ SubSeq(s, Len(s) - Len(p) + 1, Len(s)) = p

\* the largest index of ch in s, 0 when there is none (str.rfind + 1)
RFind(s, ch) ==
    LET I == {i \in 1..Len(s) : s[i] = ch}
    IN  IF I = {} THEN 0 ELSE CHOOSE i \in I : \A j \in I : j <= i

\* the smallest index >= from where sub starts in s, 0 when there is none
Find(s, sub, from) ==
    LET I == {i \in from..(Len(s) - Len(sub) + 1) :
                 SubSeq(s, i, i + Len(sub) - 1) = sub}
    IN  IF I = {} THEN 0 ELSE CHOOSE i \in I : \A j \in I : i <= j

RECURSIVE RStrip(_, _)
RStrip(s, ch) ==
    IF s # <<>> /\ s[Len(s)] = ch THEN RStrip(SubSeq(s, 1, Len(s) - 1), ch)
    ELSE s

RECURSIVE LStrip(_, _)
LStrip(s, ch) ==
    IF s # <<>> /\ Head(s) = ch THEN LStrip(Tail(s), ch) ELSE s

\* str.split(sep) for a one-character sep: the pieces, empty ones included
RECURSIVE StrSplit(_, _)
StrSplit(s, ch) ==
    LET i == Find(s, <<ch>>, 1)
    IN  IF i = 0 THEN <<s>>
        ELSE <<SubSeq(s, 1, i - 1)>> \o StrSplit(SubSeq(s, i + 1, Len(s)), ch)

\* sep.join(parts)
RECURSIVE StrJoin(_, _)
StrJoin(parts, sep) ==
    IF parts = <<>> THEN <<>>
    ELSE IF Len(parts) = 1 THEN parts[1]
    ELSE parts[1] \o sep \o StrJoin(Tail(parts), sep)

\* the elements of a set of strings in ascending string order
RECURSIVE SortStrs(_)
SortStrs(S) ==
    IF S = {} THEN <<>>
    ELSE LET m == CHOOSE x \in S : \A y \in S \ {x} : StrLess(x, y)
         IN  <<m>> \o SortStrs(S \ {m})

(***************************************************************************)
(* posixpath                                                               *)
(***************************************************************************)
Basename(p) == SubSeq(p, RFind(p, "/") + 1, Len(p))

Dirname(p) ==
    LET head == SubSeq(p, 1, RFind(p, "/"))
    IN  IF head # <<>> /\ (\E i \in 1..Len(head) : head[i] # "/")
        THEN RStrip(head, "/") ELSE head

PathJoin(a, b) ==
    IF StartsWith(b, <<"/">>) THEN b
    ELSE IF a = <<>> \/ EndsWith(a, <<"/">>) THEN a \o b
    ELSE a \o <<"/">> \o b

\* the components of a path with "" and "." dropped and ".." resolved
\* against what precedes it (normpath; a ".." at the root stays at the root)
RECURSIVE Resolve(_, _)
Resolve(done, parts) ==
    IF parts = <<>> THEN done
    ELSE LET x == Head(parts)
         IN  IF x = <<>> \/ x = <<".">> THEN Resolve(done, Tail(parts))
             ELSE IF x = <<".", ".">>
             THEN Resolve(IF done = <<>> THEN <<>>
                          ELSE SubSeq(done, 1, Len(done) - 1), Tail(parts))
             ELSE Resolve(Append(done, x), Tail(parts))

Norm(p) == Resolve(<<>>, StrSplit(p, "/"))

RECURSIVE CommonLen(_, _)
CommonLen(a, b) ==
    IF a = <<>> \/ b = <<>> \/ Head(a) # Head(b) THEN 0
    ELSE 1 + CommonLen(Tail(a), Tail(b))

\* the relative path from the components sl to the components pl, given the
\* number i of leading components they share
RelFrom(sl, pl, i) ==
    StrJoin([k \in 1..(Len(sl) - i) |-> <<".", ".">>] \o SubSeq(pl, i + 1, Len(pl)),
            <<"/">>)

RelOf(sl, pl) == IF sl = pl THEN <<".">> ELSE RelFrom(sl, pl, CommonLen(sl, pl))

\* os.path.relpath(path, start) of two paths relative to the same working
\* directory; <<"ValueError">> when either is empty
RelPath(path, start) ==
    IF path = <<>> \/ start = <<>> THEN <<"ValueError">>
    ELSE RelOf(Norm(start), Norm(path))

\* os.path.split: <<head, tail>>
PathSplit(p) == <<Dirname(p), Basename(p)>>

(***************************************************************************)
(* The local filesystem: fs.dirs is the set of directories and fs.files    *)
(* maps each regular file to its contents, both named by their resolved    *)
(* components.  A path is looked up component by component, as the kernel  *)
(* does: every component that is walked through must be a directory.       *)
(***************************************************************************)
ENOENT == << <<"ENOENT">> >>

RECURSIVE Walk(_, _, _)
Walk(fs, cur, parts) ==
    IF parts = <<>> THEN cur
    ELSE IF Head(parts) = <<>> THEN Walk(fs, cur, Tail(parts))
    ELSE IF cur \notin fs.dirs THEN ENOENT
    ELSE IF Head(parts) = <<".">> THEN Walk(fs, cur, Tail(parts))
    ELSE IF Head(parts) = <<".", ".">>
    THEN Walk(fs, SubSeq(cur, 1, Len(cur) - 1), Tail(parts))
    ELSE Walk(fs, Append(cur, Head(parts)), Tail(parts))

\* the file or directory a path names, ENOENT when the walk fails
Lookup(fs, p) == IF p = <<>> THEN ENOENT ELSE Walk(fs, <<>>, StrSplit(p, "/"))

\* what is found at the resolved components r
KindAt(fs, r) ==
    IF r = ENOENT THEN "none"
    ELSE IF r \in fs.dirs THEN "dir"
    ELSE IF r \in DOMAIN fs.files THEN "file"
    ELSE "none"

IsDir(fs, p) == KindAt(fs, Lookup(fs, p)) = "dir"

IsFile(fs, p) == KindAt(fs, Lookup(fs, p)) = "file"

Exists(fs, p) == KindAt(fs, Lookup(fs, p)) # "none"

MkdirAt(fs, r) ==
    IF r = ENOENT THEN [fs |-> fs, err |-> "OSError"]
    ELSE IF r \in fs.dirs \/ r \in DOMAIN fs.files
    THEN [fs |-> fs, err |-> "FileExistsError"]
    ELSE IF SubSeq(r, 1, Len(r) - 1) \notin fs.dirs
    THEN [fs |-> fs, err |-> "OSError"]
    ELSE [fs |-> [fs EXCEPT !.dirs = @ \cup {r}], err |-> "none"]

\* os.mkdir: the parent must be a directory and the name must be free
Mkdir(fs, p) == MkdirAt(fs, Lookup(fs, p))

\* the <<head, tail>> os.makedirs splits name into
MakedirsSplit(name) ==
    IF Basename(name) = <<>> THEN PathSplit(Dirname(name)) ELSE PathSplit(name)

\* the end of os.makedirs, up being what making the ancestors gave
MakedirsLeaf(up, name, tail) ==
    IF up.err \notin {"none", "FileExistsError"} THEN up
    ELSE IF tail = <<".">> THEN [fs |-> up.fs, err |-> "none"]
    ELSE Mkdir(up.fs, name)

\* os.makedirs(name): the missing ancestors first (a FileExistsError of that
\* inner call is passed over), then the directory itself
RECURSIVE Makedirs(_, _)
RECURSIVE MakedirsFrom(_, _, _)
MakedirsFrom(fs, name, ht) ==
    IF ht[1] # <<>> /\ ht[2] # <<>> /\ ~Exists(fs, ht[1])
    THEN MakedirsLeaf(Makedirs(fs, ht[1]), name, ht[2])
    ELSE Mkdir(fs, name)

Makedirs(fs, name) == MakedirsFrom(fs, name, MakedirsSplit(name))

WriteAt(fs, r, data) ==
    IF r = ENOENT \/ r = <<>> \/ r \in fs.dirs
       \/ SubSeq(r, 1, Len(r) - 1) \notin fs.dirs
    THEN [fs |-> fs, err |-> "OSError"]
    ELSE [fs |-> [fs EXCEPT !.files =
                     [q \in DOMAIN @ \cup {r} |-> IF q = r THEN data ELSE @[q]]],
          err |-> "none"]

\* writing a file at dest (what download_file does to the local side): the
\* parent must be a directory and dest must not be one
WriteFile(fs, dest, data) == WriteAt(fs, Lookup(fs, dest), data)

FilesBelow(fs, base) ==
    {SubSeq(f, Len(base) + 1, Len(f)) :
        f \in {g \in DOMAIN fs.files :
                  Len(g) > Len(base) /\ SubSeq(g, 1, Len(base)) = base}}

\* the regular files below directory p, each as its components below p
FilesUnder(fs, p) == FilesBelow(fs, Lookup(fs, p))

(***************************************************************************)
(* The object store: objects[bucket] maps each key to its contents.        *)
(* list_objects with delimiter "/" answers one page: the keys after the    *)
(* marker that start with the prefix, those with a further "/" rolled up   *)
(* into their common prefix, in ascending order, at most `limit` entries.  *)
(***************************************************************************)
\* the entry a key is listed as: itself, or its common prefix when a "/"
\* follows the prefix at position i
ListEntryAt(k, i) == IF i = 0 THEN k ELSE SubSeq(k, 1, i)

ListEntry(prefix, k) == ListEntryAt(k, Find(k, <<"/">>, Len(prefix) + 1))

\* a listed name is a common prefix when a "/" follows the prefix in it
IsCommonPrefix(prefix, name) == Find(name, <<"/">>, Len(prefix) + 1) # 0

\* the answer made of the listed names, truncated or not
ListAnswer(prefix, names, truncated) ==
    LET IsKey(n) == ~IsCommonPrefix(prefix, n)
        IsDirName(n) == IsCommonPrefix(prefix, n)
    IN  [Contents       |-> SelectSeq(names, IsKey),
         CommonPrefixes |-> SelectSeq(names, IsDirName),
         IsTruncated    |-> truncated]

\* the first `limit` of the listed names
ListNames(prefix, names, limit) ==
    IF Len(names) > limit
    THEN ListAnswer(prefix, SubSeq(names, 1, limit), TRUE)
    ELSE ListAnswer(prefix, names, FALSE)

ListObjects(store, prefix, marker, limit) ==
    ListNames(prefix,
              SortStrs({ListEntry(prefix, k) :
                           k \in {q \in DOMAIN store :
                                     StartsWith(q, prefix) /\ StrLess(marker, q)}}),
              limit)

(***************************************************************************)
(* The registry (the control plane behind api_client).  reg.models maps a  *)
(* model id to its name, format and type; reg.versions is the set of       *)
(* version entries; reg.lastVersion[id] is the last version number handed  *)
(* out for a model and reg.lastVid the last version id handed out: neither *)
(* is handed out twice.  ModelIds is the pool of ids the registry assigns. *)
(***************************************************************************)
ModelIds == << <<"m1">>, <<"m2">>, <<"m3">>, <<"m4">>, <<"m5">>, <<"m6">> >>

VersionsOf(reg, mid) == {v \in reg.versions : v.ModelID = mid}

Latest(reg, mid) ==
    CHOOSE v \in VersionsOf(reg, mid) :
        \A u \in VersionsOf(reg, mid) : u.ModelVersion <= v.ModelVersion

\* get_model(model_id): the model with its latest version; no answer for an
\* unknown model or a model without versions
GetModel(reg, mid) ==
    IF mid \in DOMAIN reg.models /\ VersionsOf(reg, mid) # {}
    THEN [ok |-> TRUE,
          ModelName   |-> reg.models[mid].ModelName,
          ModelFormat |-> reg.models[mid].ModelFormat,
          ModelType   |-> reg.models[mid].ModelType,
          VersionInfo |-> Latest(reg, mid)]
    ELSE [ok |-> FALSE]

\* list_model_versions(model_id, model_version): the entries of that version
ListModelVersions(reg, mid, ver) ==
    LET L == {v \in VersionsOf(reg, mid) : v.ModelVersion = ver}
    IN  [Total |-> Cardinality(L),
         List  |-> IF L = {} \/ mid \notin DOMAIN reg.models THEN <<>>
                   ELSE << [ModelVersion   |-> ver,
                            ModelVersionID |-> (CHOOSE v \in L : TRUE).ModelVersionID,
                            Path           |-> (CHOOSE v \in L : TRUE).Path,
                            ModelName      |-> reg.models[mid].ModelName,
                            ModelFormat    |-> reg.models[mid].ModelFormat,
                            ModelType      |-> reg.models[mid].ModelType] >>]

\* get_model_next_version([model_id]): 1 for a model to come
GetModelNextVersion(reg, mid) ==
    IF mid = None THEN [ok |-> TRUE, ModelVersion |-> 1]
    ELSE IF mid \in DOMAIN reg.models
    THEN [ok |-> TRUE, ModelVersion |-> reg.lastVersion[mid] + 1]
    ELSE [ok |-> FALSE]

\* the id the registry gives the next new model
NextModelId(reg) == ModelIds[Cardinality(DOMAIN reg.lastVersion) + 1]

\* create_model(...): a new version of model_id, or of a new model when
\* model_id is None; the answer names the model and the version
CreateModel(reg, name, format, type, mid, path) ==
    IF mid # None /\ mid \notin DOMAIN reg.models THEN [ok |-> FALSE, reg |-> reg]
    ELSE LET id  == IF mid = None THEN NextModelId(reg) ELSE mid
             ver == IF mid = None THEN 1 ELSE reg.lastVersion[mid] + 1
             vid == reg.lastVid + 1
             D   == DOMAIN reg.models \cup {id}
             E   == DOMAIN reg.lastVersion \cup {id}
         IN  [ok |-> TRUE, ModelID |-> id, ModelVersion |-> ver,
              reg |-> [models |->
                          [m \in D |->
                              IF m = id /\ mid = None
                              THEN [ModelName |-> name, ModelFormat |-> format,
                                    ModelType |-> type]
                              ELSE reg.models[m]],
                       versions |-> reg.versions \cup
                          {[ModelID |-> id, ModelVersion |-> ver,
                            ModelVersionID |-> vid, Path |-> path]},
                       lastVersion |->
                          [m \in E |-> IF m = id THEN ver ELSE reg.lastVersion[m]],
                       lastVid |-> vid]]

\* delete_model_version(model_id, model_version_id)
DeleteModelVersion(reg, mid, vid) ==
    IF \E v \in VersionsOf(reg, mid) : v.ModelVersionID = vid
    THEN [ok |-> TRUE,
          reg |-> [reg EXCEPT !.versions =
                      {v \in @ : ~(v.ModelID = mid /\ v.ModelVersionID = vid)}]]
    ELSE [ok |-> FALSE, reg |-> reg]

\* delete_model(model_id): the model and all its versions
DeleteModel(reg, mid) ==
    IF mid \in DOMAIN reg.models
    THEN [ok |-> TRUE,
          reg |-> [reg EXCEPT
                      !.models = [m \in DOMAIN @ \ {mid} |-> @[m]],
                      !.versions = {v \in @ : v.ModelID # mid}]]
    ELSE [ok |-> FALSE, reg |-> reg]

(***************************************************************************)
(* Running a method.  A context c carries the handle (c.self), the         *)
(* registry, the object store, the filesystem and the Inference handles    *)
(* through the statements of a method; c.err is the exception in flight    *)
(* ("none" while there is none) and every statement is skipped once one is *)
(* raised, until a handler takes it.  c.calls is the log of the remote     *)
(* calls issued so far; the call at position c.failAt fails (0: none       *)
(* does).  c.upload is the answer get_tos_upload_path gives and c.limit    *)
(* the number of entries the object store puts on a page.                  *)
(***************************************************************************)
Raise(c, e) == [c EXCEPT !.err = e]

\* a call to the registry, the object store or the inference service: it is
\* logged, and raises when it is the one that fails
Remote(c, call) ==
    IF c.err # "none" THEN c
    ELSE IF Len(c.calls) + 1 = c.failAt
    THEN [c EXCEPT !.calls = Append(@, call), !.err = "RemoteError"]
    ELSE [c EXCEPT !.calls = Append(@, call)]

\* except Exception as e: raise Exception('Model is invalid') from e
WrapInvalid(c) ==
    IF c.err = "none" THEN c
    ELSE [c EXCEPT !.err = "ModelInvalid", !.cause = c.err]

\* a variant of the constructor's test that refuses a handle as soon as one
\* of the two arguments is missing
InitInvalidEither(model_id, local_path) == model_id = None \/ local_path = None

\* the test __init__ makes after setting the fields
InitInvalid(model_id, local_path) == model_id = None /\ local_path = None

\* the fields _sync takes from the answer r of get_model
SyncLatest(c, r) ==
    IF c.err # "none" THEN c
    ELSE IF ~r.ok THEN Raise(c, "RemoteError")
    ELSE [c EXCEPT !.self.model_version    = r.VersionInfo.ModelVersion,
                   !.self.model_version_id = r.VersionInfo.ModelVersionID,
                   !.self.remote_path      = r.VersionInfo.Path,
                   !.self.model_name       = r.ModelName,
                   !.self.model_format     = r.ModelFormat,
                   !.self.model_type       = r.ModelType]

\* the fields _sync takes from the answer r of list_model_versions
SyncVersion(c, r) ==
    IF c.err # "none" THEN c
    ELSE IF r.Total = 0 THEN Raise(c, "ValueError")
    ELSE [c EXCEPT !.self.model_version    = r.List[1].ModelVersion,
                   !.self.model_version_id = r.List[1].ModelVersionID,
                   !.self.remote_path      = r.List[1].Path,
                   !.self.model_name       = r.List[1].ModelName,
                   !.self.model_format     = r.List[1].ModelFormat,
                   !.self.model_type       = r.List[1].ModelType]

Sync(c) ==
    IF c.err # "none" THEN c
    ELSE IF c.self.model_version = NoneNum
    THEN SyncLatest(Remote(c, [api |-> "get_model",
                               model_id |-> c.self.model_id]),
                    GetModel(c.reg, c.self.model_id))
    ELSE SyncVersion(Remote(c, [api |-> "list_model_versions",
                                model_id |-> c.self.model_id,
                                model_version |-> c.self.model_version]),
                     ListModelVersions(c.reg, c.self.model_id,
                                       c.self.model_version))

Clear(c) ==
    [c EXCEPT !.self.model_version = NoneNum,
              !.self.model_version_id = NoneNum,
              !.self.remote_path = None]

Restore(c) ==
    [c EXCEPT !.self.model_version = NoneNum,
              !.self.model_version_id = NoneNum,
              !.self.remote_path = None,
              !.self.model_id = None]

\* a variant of the existence test that takes every path for an existing one
LocalPathAssumed(c) == TRUE

\* os.path.exists(self.local_path)
LocalPathExists(c) == Exists(c.fs, c.self.local_path)

\* self.model_version = get_model_next_version(...)['Result']['ModelVersion']
SetNextVersion(c, n) ==
    IF c.err # "none" THEN c
    ELSE IF ~n.ok THEN Raise(c, "RemoteError")
    ELSE [c EXCEPT !.self.model_version = n.ModelVersion]

\* self.model_name = get_model(model_id)['Result']['ModelName']
SetRegistryName(c, g) ==
    IF c.err # "none" THEN c
    ELSE IF ~g.ok THEN Raise(c, "RemoteError")
    ELSE [c EXCEPT !.self.model_name = g.ModelName]

RegisterValidateAndPreprocess(c, model_name, model_format, model_type) ==
    IF c.err # "none" THEN c
    ELSE IF c.self.local_path = None THEN Raise(c, "ValueError")
    ELSE IF ~LocalPathExists(c) THEN Raise(c, "ValueError")
    ELSE IF c.self.model_id = None
    THEN IF model_name = None \/ model_format = None \/ model_type = None
         THEN Raise(c, "ValueError")
         ELSE SetNextVersion(Remote(c, [api |-> "get_model_next_version",
                                        model_id |-> None]),
                             GetModelNextVersion(c.reg, None))
    ELSE SetRegistryName(
             Remote(SetNextVersion(Remote(c, [api |-> "get_model_next_version",
                                              model_id |-> c.self.model_id]),
                                   GetModelNextVersion(c.reg, c.self.model_id)),
                    [api |-> "get_model", model_id |-> c.self.model_id]),
             GetModel(c.reg, c.self.model_id))

RequireModelTosStorage(c) == Remote(c, [api |-> "get_tos_upload_path"])

\* the object store takes the file at the resolved components r under key
StoreObject(c, bucket, key, r) ==
    IF c.err # "none" THEN c
    ELSE IF bucket \notin DOMAIN c.objs THEN Raise(c, "RemoteError")
    ELSE [c EXCEPT !.objs[bucket] =
             [k \in DOMAIN @ \cup {key} |->
                 IF k = key THEN c.fs.files[r] ELSE @[k]]]

\* tos_client.upload_file(file_path, bucket, key=key)
UploadFile(c, file_path, bucket, key) ==
    IF c.err # "none" THEN c
    ELSE StoreObject(Remote(c, [api |-> "upload_file", file |-> file_path,
                                bucket |-> bucket, key |-> key]),
                     bucket, key, Lookup(c.fs, file_path))

\* 'tos://{}/{}'.format(bucket, key)
FormatTos(bucket, key) ==
    <<"t", "o", "s", ":", "/", "/">> \o bucket \o <<"/">> \o key

\* the directory os.walk reports the file with components rel in
WalkRoot(local_path, rel) ==
    IF Len(rel) = 1 THEN local_path
    ELSE PathJoin(local_path, StrJoin(SubSeq(rel, 1, Len(rel) - 1), <<"/">>))

\* key = prefix + file, or prefix + rel_path + '/' + file
WalkKey(prefix, rel_path, file) ==
    IF rel_path = <<".">> THEN prefix \o file
    ELSE prefix \o rel_path \o <<"/">> \o file

\* the key _upload_tos gives the file with components rel below local_path
UploadKey(local_path, prefix, rel) ==
    WalkKey(prefix, RelPath(WalkRoot(local_path, rel), local_path),
            rel[Len(rel)])

\* the loop over os.walk(self.local_path): names are the files as paths
\* relative to local_path, in ascending order
RECURSIVE UploadWalk(_, _, _, _)
UploadWalk(c, names, bucket, prefix) ==
    IF c.err # "none" \/ names = <<>> THEN c
    ELSE UploadWalk(UploadFile(c, PathJoin(c.self.local_path, Head(names)),
                               bucket,
                               UploadKey(c.self.local_path, prefix,
                                         StrSplit(Head(names), "/"))),
                    Tail(names), bucket, prefix)

\* if os.path.isfile(self.local_path): upload it under prefix + basename
UploadSingle(c, bucket, prefix) ==
    IF c.err = "none" /\ IsFile(c.fs, c.self.local_path)
    THEN UploadFile(c, c.self.local_path, bucket,
                    prefix \o Basename(c.self.local_path))
    ELSE c

\* the prefix after the test of the directory's own name
DirPrefix(c, prefix) ==
    IF IsDir(c.fs, c.self.local_path)
       /\ Basename(RStrip(c.self.local_path, "/")) # <<".">>
    THEN prefix \o Basename(RStrip(c.self.local_path, "/")) \o <<"/">>
    ELSE prefix

\* if os.path.isdir(self.local_path): upload every file below it
UploadDir(c, bucket, prefix) ==
    IF c.err = "none" /\ IsDir(c.fs, c.self.local_path)
    THEN UploadWalk(c, SortStrs({StrJoin(r, <<"/">>) :
                                    r \in FilesUnder(c.fs, c.self.local_path)}),
                    bucket, prefix)
    ELSE c

\* prefix[:-1]
DropLast(s) == SubSeq(s, 1, Len(s) - 1)

\* a variant of the last line of _upload_tos that keeps the trailing slash
SetRemotePathUnstripped(c, bucket, prefix) ==
    IF c.err # "none" THEN c
    ELSE [c EXCEPT !.self.remote_path = FormatTos(bucket, prefix)]

\* self.remote_path = 'tos://{}/{}'.format(bucket, prefix[:-1])
SetRemotePath(c, bucket, prefix) ==
    IF c.err # "none" THEN c
    ELSE [c EXCEPT !.self.remote_path = FormatTos(bucket, DropLast(prefix))]

\* _upload_tos once the directory's prefix is known
UploadUnder(c, bucket, prefix) ==
    SetRemotePath(UploadDir(c, bucket, prefix), bucket, prefix)

UploadTos(c) ==
    IF c.err # "none" THEN c
    ELSE UploadUnder(UploadSingle(RequireModelTosStorage(c), c.upload.Bucket,
                                  c.upload.KeyPrefix),
                     c.upload.Bucket, DirPrefix(c, c.upload.KeyPrefix))

\* the handle takes the version and the id of the answer r of create_model
SetCreated(c, r) ==
    IF c.err # "none" THEN c
    ELSE IF ~r.ok THEN Raise(c, "RemoteError")
    ELSE [c EXCEPT !.reg = r.reg,
                   !.self.model_version = r.ModelVersion,
                   !.self.model_id = r.ModelID]

\* response = self.api_client.create_model(...) and what follows it
RegisterCreate(c, description) ==
    IF c.err # "none" THEN c
    ELSE SetCreated(Remote(c, [api |-> "create_model",
                               model_name   |-> c.self.model_name,
                               model_format |-> c.self.model_format,
                               model_type   |-> c.self.model_type,
                               model_id     |-> c.self.model_id,
                               path         |-> c.self.remote_path,
                               description  |-> description]),
                    CreateModel(c.reg, c.self.model_name, c.self.model_format,
                                c.self.model_type, c.self.model_id,
                                c.self.remote_path))

Register(c, model_name, model_format, model_type, description) ==
    WrapInvalid(
        RegisterCreate(
            UploadTos(
                RegisterValidateAndPreprocess(
                    [c EXCEPT !.self.model_name = model_name,
                              !.self.model_format = model_format,
                              !.self.model_type = model_type],
                    model_name, model_format, model_type)),
            description))

\* the host and the path of what follows "scheme:" in a url
UrlNetloc(rest, j) ==
    IF ~StartsWith(rest, <<"/", "/">>) THEN [hostname |-> None, path |-> rest]
    ELSE IF j = 0
    THEN [hostname |-> SubSeq(rest, 3, Len(rest)), path |-> <<>>]
    ELSE [hostname |-> SubSeq(rest, 3, j - 1),
          path |-> SubSeq(rest, j, Len(rest))]

UrlSplit(url, i) ==
    IF i = 0 THEN [scheme |-> <<>>, rest |-> UrlNetloc(url, Find(url, <<"/">>, 3))]
    ELSE [scheme |-> SubSeq(url, 1, i - 1),
          rest |-> UrlNetloc(SubSeq(url, i + 1, Len(url)),
                             Find(SubSeq(url, i + 1, Len(url)), <<"/">>, 3))]

\* urlparse(url): the scheme, and the hostname and path (under rest) of
\* scheme://host/path (no query, fragment, user or port occurs in the urls
\* of this model)
UrlParse(url) == UrlSplit(url, Find(url, <<":">>, 1))

\* os.path.join(self.local_path, rel + tail), rel being the relpath: the
\* error raised when an argument is refused, else the path
DestJoin(local_path, rel, tail) ==
    IF rel = <<"ValueError">> THEN [err |-> "ValueError", path |-> <<>>]
    ELSE IF local_path = None THEN [err |-> "TypeError", path |-> <<>>]
    ELSE [err |-> "none", path |-> PathJoin(local_path, rel \o tail)]

DestPathname(local_path, name, prefix, tail) ==
    DestJoin(local_path, RelPath(name, prefix), tail)

\* the filesystem after os.makedirs answered m
AfterMakedirs(c, m) ==
    IF m.err # "none" THEN Raise([c EXCEPT !.fs = m.fs], "OSError")
    ELSE [c EXCEPT !.fs = m.fs]

\* if not os.path.exists(os.path.dirname(dest)): os.makedirs(...)
EnsureParent(c, dest_pathname) ==
    IF c.err # "none" \/ Exists(c.fs, Dirname(dest_pathname)) THEN c
    ELSE AfterMakedirs(c, Makedirs(c.fs, Dirname(dest_pathname)))

\* the filesystem after the write of the fetched object answered w
AfterWrite(c, w) ==
    IF w.err # "none" THEN Raise(c, "OSError") ELSE [c EXCEPT !.fs = w.fs]

\* the local side of download_file
FetchObject(c, bucket, key, dest_pathname) ==
    IF c.err # "none" THEN c
    ELSE IF bucket \notin DOMAIN c.objs THEN Raise(c, "RemoteError")
    ELSE AfterWrite(c, WriteFile(c.fs, dest_pathname, c.objs[bucket][key]))

\* s3_client.download_file(bucket, key, dest_pathname)
DownloadFile(c, bucket, key, dest_pathname) ==
    FetchObject(Remote(c, [api |-> "download_file", bucket |-> bucket,
                           key |-> key, dest |-> dest_pathname]),
                bucket, key, dest_pathname)

\* the marker _download_tos takes for the page after a truncated one
NextMarker(result) ==
    IF result.Contents = <<>> THEN [err |-> "LookupError", marker |-> <<>>]
    ELSE [err |-> "none", marker |-> result.Contents[Len(result.Contents)]]

\* if not os.path.isdir(dest_pathname): download_file(...)
DownloadUnlessDir(c, bucket, file, dest_pathname) ==
    IF c.err # "none" \/ IsDir(c.fs, dest_pathname) THEN c
    ELSE DownloadFile(c, bucket, file, dest_pathname)

\* one file of the loop over keys, d being its destination
DownloadTo(c, bucket, file, d) ==
    IF d.err # "none" THEN Raise(c, d.err)
    ELSE DownloadUnlessDir(EnsureParent(c, d.path), bucket, file, d.path)

DownloadKey(c, bucket, file, prefix) ==
    DownloadTo(c, bucket, file,
               DestPathname(c.self.local_path, file, prefix, <<>>))

RECURSIVE DownloadKeys(_, _, _, _)
DownloadKeys(c, bucket, keys, prefix) ==
    IF c.err # "none" \/ keys = <<>> THEN c
    ELSE DownloadKeys(DownloadKey(c, bucket, Head(keys), prefix),
                      bucket, Tail(keys), prefix)

\* a variant of the loop over dirs that calls os.makedirs without testing
\* whether the directory exists
MakeLocalDirUnchecked(c, d) ==
    IF c.err # "none" THEN c
    ELSE IF d.err # "none" THEN Raise(c, d.err)
    ELSE AfterMakedirs(c, Makedirs(c.fs, Dirname(d.path)))

\* the local directory of a listed sub-prefix, d being its destination
MakeLocalDir(c, d) ==
    IF d.err # "none" THEN Raise(c, d.err) ELSE EnsureParent(c, d.path)

RECURSIVE DownloadPages(_, _, _, _, _, _)
RECURSIVE DownloadDirs(_, _, _, _)
RECURSIVE DownloadPage(_, _, _, _, _, _)
RECURSIVE DownloadNext(_, _, _, _, _, _)

\* _download_tos(bucket, key, prefix): marker = '', then the while loop.  The
\* calls of one invocation are logged under `loop`, the position of its first
\* call in the log
DownloadTos(c, bucket, key, prefix) ==
    DownloadPages(c, bucket, key, prefix, <<>>, Len(c.calls) + 1)

\* the loop over dirs: make the local directory, then list the sub-prefix
DownloadDirs(c, bucket, dirs, prefix) ==
    IF c.err # "none" \/ dirs = <<>> THEN c
    ELSE DownloadDirs(
             DownloadTos(MakeLocalDir(c, DestPathname(c.self.local_path,
                                                      Head(dirs), prefix,
                                                      <<"/">>)),
                         bucket, Head(dirs), prefix),
             bucket, Tail(dirs), prefix)

\* the end of one turn of the while loop: stop, or take the next marker
DownloadNext(c, bucket, key, prefix, result, loop) ==
    IF c.err # "none" \/ ~result.IsTruncated THEN c
    ELSE IF NextMarker(result).err # "none"
    THEN Raise(c, NextMarker(result).err)
    ELSE DownloadPages(c, bucket, key, prefix, NextMarker(result).marker, loop)

\* the body of one turn of the while loop, result being the page listed
DownloadPage(c, bucket, key, prefix, result, loop) ==
    DownloadNext(DownloadKeys(DownloadDirs(c, bucket, result.CommonPrefixes,
                                           prefix),
                              bucket, result.Contents, prefix),
                 bucket, key, prefix, result, loop)

\* one turn of the while loop, from the list_objects call with this marker
DownloadPages(c, bucket, key, prefix, marker, loop) ==
    IF c.err # "none" THEN c
    ELSE IF Len(c.calls) + 1 = c.failAt \/ bucket \notin DOMAIN c.objs
    THEN Raise(Remote(c, [api |-> "list_objects", bucket |-> bucket,
                          prefix |-> key, marker |-> marker, loop |-> loop]),
               "RemoteError")
    ELSE DownloadPage(Remote(c, [api |-> "list_objects", bucket |-> bucket,
                                 prefix |-> key, marker |-> marker,
                                 loop |-> loop]),
                      bucket, key, prefix,
                      ListObjects(c.objs[bucket], key, marker, c.limit), loop)

\* the download the parsed remote_path asks for
DownloadParsed(c, parse_url) ==
    IF parse_url.scheme = <<"t", "o", "s">>
    THEN DownloadTos(c, parse_url.rest.hostname,
                     LStrip(parse_url.rest.path, "/"),
                     LStrip(parse_url.rest.path, "/"))
    ELSE c

\* _download_model after the sync
DownloadSynced(c) ==
    IF c.err # "none" THEN c ELSE DownloadParsed(c, UrlParse(c.self.remote_path))

DownloadModel(c) ==
    IF c.err # "none" THEN c
    ELSE IF c.self.remote_path = None \/ c.self.model_version = NoneNum
    THEN DownloadSynced(Sync(c))
    ELSE DownloadSynced(c)

\* python's truth of an optional argument
Truthy(x) == x # None /\ x # <<>>

\* the two assignments download makes from its arguments
DownloadArgs(c, model_version, local_path) ==
    [c EXCEPT !.self.local_path = IF Truthy(local_path) THEN local_path ELSE @,
              !.self.model_version =
                  IF model_version # NoneNum THEN model_version ELSE @]

\* download after the assignments
DownloadChecked(c) ==
    IF c.self.model_id = None THEN Raise(c, "ValueError")
    ELSE WrapInvalid(DownloadModel(c))

Download(c, model_version, local_path) ==
    DownloadChecked(DownloadArgs(c, model_version, local_path))

\* a variant of the early return that takes every handle for a registered one
NotRegisteredUnchecked(c) == FALSE

\* the handle is not registered: unregister and unregister_all_versions
\* return at once
NotRegistered(c) == c.self.model_id = None

\* the registry after the delete call answered r
AfterDelete(c, r) ==
    IF c.err # "none" THEN c
    ELSE IF ~r.ok THEN Raise(c, "RemoteError")
    ELSE [c EXCEPT !.reg = r.reg]

\* a variant of the end of unregister that resets the whole handle
UnregisterDoneRestoring(c) == IF c.err # "none" THEN c ELSE Restore(c)

\* self._clear() once the try block is through
UnregisterDone(c) == IF c.err # "none" THEN c ELSE Clear(c)

\* self._restore() once the try block is through
UnregisterAllDone(c) == IF c.err # "none" THEN c ELSE Restore(c)

\* the try block of unregister and what follows it
UnregisterDelete(c) ==
    IF c.err # "none" THEN c
    ELSE UnregisterDone(
             WrapInvalid(
                 AfterDelete(Remote(c, [api |-> "delete_model_version",
                                        model_id |-> c.self.model_id,
                                        model_version_id |->
                                            c.self.model_version_id]),
                             DeleteModelVersion(c.reg, c.self.model_id,
                                                c.self.model_version_id))))

Unregister(c) ==
    IF NotRegistered(c) THEN c ELSE UnregisterDelete(Sync(c))

UnregisterAllVersions(c) ==
    IF NotRegistered(c) THEN c
    ELSE UnregisterAllDone(
             WrapInvalid(AfterDelete(Remote(c, [api |-> "delete_model",
                                                model_id |-> c.self.model_id]),
                                     DeleteModel(c.reg, c.self.model_id))))

Explain(c) ==
    IF c.self.model_id = None THEN Raise(c, "ValueError")
    ELSE WrapInvalid(Remote(c, [api |-> "list_model_versions",
                                model_id |-> c.self.model_id,
                                page_size |-> 20]))

\* a variant of deploy's test that never reuses a tracked deployment
ReturnsExistingNever(c, force) == FALSE

\* deploy returns the tracked deployment instead of creating one
ReturnsExisting(c, force) ==
    c.self.model_version \in DOMAIN c.self.inference_service /\ ~force

\* _Inference(...): the handle deploy constructs
NewInference(c) ==
    [model_id         |-> c.self.model_id,
     model_version_id |-> c.self.model_version_id,
     model_version    |-> c.self.model_version,
     model_path       |-> c.self.remote_path,
     created          |-> FALSE]

\* self.inference_service.update({self.model_version: inference_service})
TrackInference(c, id) ==
    [c EXCEPT !.infs = Append(@, NewInference(c)),
              !.self.inference_service =
                  [v \in DOMAIN @ \cup {c.self.model_version} |->
                      IF v = c.self.model_version THEN id ELSE @[v]]]

\* what follows inference_service.create(): return inference_service
AfterCreate(c, id) ==
    IF c.err # "none" THEN c
    ELSE [c EXCEPT !.infs[id].created = TRUE, !.ret = id]

\* inference_service.create()
CreateInference(c, id) ==
    AfterCreate(Remote(c, [api |-> "inference_create", inference |-> id]), id)

\* deploy after the sync
DeploySynced(c, force) ==
    IF c.err # "none" THEN c
    ELSE IF ReturnsExisting(c, force)
    THEN [c EXCEPT !.ret = c.self.inference_service[c.self.model_version]]
    ELSE CreateInference(TrackInference(c, Len(c.infs) + 1), Len(c.infs) + 1)

Deploy(c, force, model_version) ==
    DeploySynced(Sync([c EXCEPT !.self.model_version =
                          IF model_version # NoneNum THEN model_version ELSE @]),
                 force)

(***************************************************************************)
(* The state: one Model handle (self, its fields under their names in the  *)
(* source; constructed tells whether __init__ has returned one), the       *)
(* registry, the object store, the local filesystem, the Inference handles *)
(* constructed so far, and `last`, the outcome of the latest call: the     *)
(* method, its arguments, the page size the object store used, the         *)
(* exception that reached the caller (err, with its __cause__), the value  *)
(* returned, the remote calls it issued, and under prev the method and the *)
(* exception of the call before it.  ops counts the calls made.            *)
(***************************************************************************)
VARIABLES self, constructed, registry, objects, fs, inferences, last, ops

vars == <<self, constructed, registry, objects, fs, inferences, last, ops>>

\* names used by the scenarios
Bucket   == <<"b", "k">>
KeyPrefix == <<"p", "/">>
DirM     == <<"/", "w", "/", "m">>
DirD     == <<"/", "w", "/", "d">>
PathOld  == FormatTos(Bucket, <<"p", "/", "o">>)
PathNew  == FormatTos(Bucket, <<"p", "/", "n">>)

NoHandle ==
    [model_id |-> None, model_version |-> NoneNum,
     model_version_id |-> NoneNum, model_name |-> None,
     model_format |-> None, model_type |-> None, local_path |-> None,
     remote_path |-> None, inference_service |-> <<>>]

\* __init__: the fields as the constructor sets them
NewHandle(model_id, local_path) ==
    [NoHandle EXCEPT !.model_id = model_id, !.local_path = local_path]

Registry0 ==
    [models |-> (<<"m1">> :> [ModelName |-> <<"na">>, ModelFormat |-> <<"onnx">>,
                              ModelType |-> <<"cls">>]),
     versions |-> {[ModelID |-> <<"m1">>, ModelVersion |-> 1,
                    ModelVersionID |-> 1, Path |-> PathOld],
                   [ModelID |-> <<"m1">>, ModelVersion |-> 2,
                    ModelVersionID |-> 2, Path |-> PathNew]},
     lastVersion |-> (<<"m1">> :> 2),
     lastVid |-> 2]

Objects0 ==
    Bucket :> (<<"p", "/", "o", "/", "a">> :> "old" @@
               <<"p", "/", "n", "/", "a">> :> "new")

Fs0 ==
    [dirs  |-> {<<>>, << <<"w">> >>, << <<"w">>, <<"m">> >>},
     files |-> (<< <<"w">>, <<"m">>, <<"a">> >> :> "fa")]

NoCall == [op |-> "none", args |-> <<>>, limit |-> 1, err |-> "none",
           cause |-> "none", ret |-> NoneNum, calls |-> <<>>,
           prev |-> [op |-> "none", err |-> "none"]]

Init ==
    /\ self = NoHandle
    /\ constructed = FALSE
    /\ registry = Registry0
    /\ objects = Objects0
    /\ fs = Fs0
    /\ inferences = <<>>
    /\ last = NoCall
    /\ ops = 0

\* the context a method starts in
Ctx(failAt, limit) ==
    [self |-> self, reg |-> registry, objs |-> objects, fs |-> fs,
     infs |-> inferences, calls |-> <<>>, failAt |-> failAt, limit |-> limit,
     upload |-> [Bucket |-> Bucket, KeyPrefix |-> KeyPrefix],
     err |-> "none", cause |-> "none", ret |-> NoneNum]

\* the state a method leaves, and its outcome
Finish(c, op, args) ==
    /\ ops < MaxOps
    /\ ops' = ops + 1
    /\ self' = c.self
    /\ registry' = c.reg
    /\ objects' = c.objs
    /\ fs' = c.fs
    /\ inferences' = c.infs
    /\ last' = [op |-> op, args |-> args, limit |-> c.limit, err |-> c.err,
                cause |-> c.cause, ret |-> c.ret, calls |-> c.calls,
                prev |-> [op |-> last.op, err |-> last.err]]

ConstructArgs == {None, <<"m1">>} \X {None, DirM, DirD}

\* Model(model_id, local_path)
Construct ==
    /\ ~constructed
    /\ ops < MaxOps
    /\ ops' = ops + 1
    /\ \E a \in ConstructArgs :
          /\ constructed' = ~InitInvalid(a[1], a[2])
          /\ self' = IF InitInvalid(a[1], a[2]) THEN self
                     ELSE NewHandle(a[1], a[2])
          /\ last' = [NoCall EXCEPT
                         !.op = "init", !.args = a,
                         !.prev = [op |-> last.op, err |-> last.err],
                         !.err = IF InitInvalid(a[1], a[2]) THEN "ValueError"
                                 ELSE "none"]
    /\ UNCHANGED <<registry, objects, fs, inferences>>

RegisterArgs ==
    {<< <<"na">>, <<"onnx">>, <<"cls">> >>,
     << <<"nb">>, <<"onnx">>, <<"cls">> >>,
     << None, <<"onnx">>, <<"cls">> >>}

RegisterCall ==
    /\ constructed
    /\ \E a \in RegisterArgs, failAt \in 0..5 :
          Finish(Register(Ctx(failAt, 1), a[1], a[2], a[3], None),
                 "register", a)
    /\ UNCHANGED constructed

DownloadCall ==
    /\ constructed
    /\ \E v \in 0..2, lp \in {None, DirD}, failAt \in 0..4 :
          Finish(Download(Ctx(failAt, MaxPage), v, lp), "download",
                 [model_version |-> v, local_path |-> lp])
    /\ UNCHANGED constructed

UnregisterCall ==
    /\ constructed
    /\ \E failAt \in 0..2 :
          Finish(Unregister(Ctx(failAt, 1)), "unregister", <<>>)
    /\ UNCHANGED constructed

UnregisterAllVersionsCall ==
    /\ constructed
    /\ \E failAt \in 0..1 :
          Finish(UnregisterAllVersions(Ctx(failAt, 1)),
                 "unregister_all_versions", <<>>)
    /\ UNCHANGED constructed

ExplainCall ==
    /\ constructed
    /\ \E failAt \in 0..1 : Finish(Explain(Ctx(failAt, 1)), "explain", <<>>)
    /\ UNCHANGED constructed

DeployCall ==
    /\ constructed
    /\ \E force \in BOOLEAN, v \in 0..1, failAt \in 0..2 :
          Finish(Deploy(Ctx(failAt, 1), force, v), "deploy",
                 [force |-> force, model_version |-> v])
    /\ UNCHANGED constructed

Next ==
    \/ Construct
    \/ RegisterCall
    \/ DownloadCall
    \/ UnregisterCall
    \/ UnregisterAllVersionsCall
    \/ ExplainCall
    \/ DeployCall

Spec == Init /\ [][Next]_vars

(***************************************************************************)
(* The storage scenarios: a handle on a local tree (nested directories, or *)
(* more sub-directories than a page holds before a file) and a bucket that *)
(* is empty or already holds an object under the upload prefix, under a    *)
(* sibling prefix, or named like a directory of the tree.  The tree is     *)
(* registered and downloaded to another directory, page by page.           *)
(***************************************************************************)
FsNested ==
    [dirs  |-> {<<>>, << <<"w">> >>, << <<"w">>, <<"m">> >>,
                << <<"w">>, <<"m">>, <<"s">> >>},
     files |-> (<< <<"w">>, <<"m">>, <<"a">> >> :> "fa" @@
                << <<"w">>, <<"m">>, <<"s">>, <<"b">> >> :> "fb")]

FsWide ==
    [dirs  |-> {<<>>, << <<"w">> >>, << <<"w">>, <<"m">> >>,
                << <<"w">>, <<"m">>, <<"a">> >>,
                << <<"w">>, <<"m">>, <<"b">> >>},
     files |-> (<< <<"w">>, <<"m">>, <<"a">>, <<"x">> >> :> "fx" @@
                << <<"w">>, <<"m">>, <<"b">>, <<"x">> >> :> "fy" @@
                << <<"w">>, <<"m">>, <<"c">> >> :> "fc")]

TosTrees == {FsNested, FsWide}

TosBuckets ==
    {Bucket :> <<>>,
     Bucket :> (<<"p", "/", "m", "/", "o">> :> "old"),
     Bucket :> (<<"p", "/", "m", "2", "/", "x">> :> "sib"),
     Bucket :> (<<"p", "/", "m", "/", "s">> :> "old")}

TosLocalPaths == {DirM, DirM \o <<"/">>}

InitTos ==
    /\ self \in {NewHandle(None, lp) : lp \in TosLocalPaths}
    /\ constructed = TRUE
    /\ registry = Registry0
    /\ objects \in TosBuckets
    /\ fs \in TosTrees
    /\ inferences = <<>>
    /\ last = NoCall
    /\ ops = 1

RegisterTree ==
    /\ \E failAt \in 0..MaxFail :
          Finish(Register(Ctx(failAt, 1), <<"na">>, <<"onnx">>, <<"cls">>, None),
                 "register", << <<"na">>, <<"onnx">>, <<"cls">> >>)
    /\ UNCHANGED constructed

DownloadTree ==
    /\ \E failAt \in 0..MaxFail, limit \in 1..MaxPage :
          Finish(Download(Ctx(failAt, limit), NoneNum, DirD), "download",
                 [model_version |-> NoneNum, local_path |-> DirD])
    /\ UNCHANGED constructed

NextTos == RegisterTree \/ DownloadTree

SpecTos == InitTos /\ [][NextTos]_vars

(***************************************************************************)
(* The properties.  Every step of a behaviour is one call on the handle,   *)
(* so in a step `last'` is the outcome of the call and the unprimed        *)
(* variables are the state the call started in.                            *)
(***************************************************************************)

\* C1: constructing a Model fails with ValueError exactly when model_id and
\* local_path are both None; with at least one of them set the constructor
\* returns a handle.
C1_InitValueErrorIffBothNone ==
    last.op = "init" =>
        /\ (last.args[1] = None /\ last.args[2] = None) => last.err = "ValueError"
        /\ (last.args[1] # None \/ last.args[2] # None) =>
               (last.err = "none" /\ constructed)

\* C1, its case: a construction with neither argument was refused
C1_Witness ==
    /\ last.op = "init"
    /\ last.args = <<None, None>>
    /\ last.err = "ValueError"
    /\ ~constructed

\* the remote calls of a log that go to the registry or the object store
ServiceCalls(calls) ==
    {i \in 1..Len(calls) :
        calls[i].api \in {"get_model_next_version", "get_model",
                          "get_tos_upload_path", "create_model", "upload_file",
                          "list_model_versions", "list_objects",
                          "download_file", "delete_model_version",
                          "delete_model"}}

\* the handle's local_path is None or names nothing on disk
LocalPathMissing == self.local_path = None \/ ~Exists(fs, self.local_path)

\* C2: register() on a handle whose local_path is None or does not exist on
\* disk fails, and it has issued no registry call and no object-storage call,
\* whether model_id is set or not.
C2_RegisterMissingPathNoRemoteCall ==
    [][(last'.op = "register" /\ LocalPathMissing) =>
          (last'.err # "none" /\ ServiceCalls(last'.calls) = {})]_vars

\* C2, its case: a handle with a model_id and a local_path that is not on
\* disk has been through a failed register that issued no call
C2_Witness ==
    /\ last.op = "register"
    /\ self.model_id # None
    /\ self.local_path = DirD
    /\ ~Exists(fs, DirD)
    /\ last.err # "none"
    /\ last.calls = <<>>

\* C3: register() on a handle whose local_path does not exist on disk raises
\* an invalid-argument error (ValueError, as the constructor does), so that
\* the caller can tell it from a failure of a remote call.
C3_RegisterMissingPathValueError ==
    [][(last'.op = "register" /\ self.local_path # None
           /\ ~Exists(fs, self.local_path)) =>
          last'.err = "ValueError"]_vars

\* C3, its case: register() on a path that is not on disk ended with the
\* generic error, the ValueError being its cause
C3_Witness ==
    /\ last.op = "register"
    /\ self.local_path = DirD
    /\ ~Exists(fs, DirD)
    /\ last.err = "ModelInvalid"
    /\ last.cause = "ValueError"

\* the number of Inference.create calls in a log
RECURSIVE Creates(_)
Creates(calls) ==
    IF calls = <<>> THEN 0
    ELSE (IF Head(calls).api = "inference_create" THEN 1 ELSE 0)
         + Creates(Tail(calls))

\* C4: when deploy(force=False) returns twice in a row on the handle and both
\* calls resolve to the same model_version, the second call returns the
\* Inference handle the first returned and calls Inference.create no more:
\* at most the first of the two calls created a deployment.
C4_DeployTwiceSameHandle ==
    [][(/\ last.op = "deploy" /\ last.err = "none" /\ ~last.args.force
        /\ last'.op = "deploy" /\ last'.err = "none" /\ ~last'.args.force
        /\ self'.model_version = self.model_version) =>
          (/\ last'.ret = last.ret
           /\ Creates(last'.calls) = 0
           /\ Creates(last.calls) + Creates(last'.calls) <= 1
           /\ inferences' = inferences)]_vars

\* C4, its case: right after a deploy that returned, a deploy(force=False)
\* has returned the tracked, created deployment without calling
\* Inference.create
C4_Witness ==
    /\ last.prev = [op |-> "deploy", err |-> "none"]
    /\ last.op = "deploy"
    /\ last.err = "none"
    /\ ~last.args.force
    /\ Creates(last.calls) = 0
    /\ Len(inferences) = 1
    /\ inferences[last.ret].created
    /\ self.inference_service[self.model_version] = last.ret

\* C5: unregister() and unregister_all_versions() on a handle whose model_id
\* is None return without raising, issue no remote call and leave every
\* field of the handle (and the registry, the store and the disk) as it was.
C5_UnregisterUnregisteredNoOp ==
    [][(self.model_id = None
           /\ last'.op \in {"unregister", "unregister_all_versions"}) =>
          (/\ last'.err = "none"
           /\ last'.calls = <<>>
           /\ self' = self
           /\ registry' = registry
           /\ objects' = objects
           /\ fs' = fs)]_vars

\* C5, its case: unregister_all_versions() has returned on a handle that was
\* never registered
C5_Witness ==
    /\ last.op = "unregister_all_versions"
    /\ self.model_id = None
    /\ self.local_path # None
    /\ last.err = "none"
    /\ last.calls = <<>>

\* the list_objects calls of the latest call that belong to the invocation
\* `loop` of _download_tos, in the order they were issued
ListCallsOf(loop) ==
    SelectSeq(last.calls,
              LAMBDA x : x.api = "list_objects" /\ x.loop = loop)

\* the invocations of _download_tos in the latest call
Loops ==
    {last.calls[i].loop :
        i \in {j \in 1..Len(last.calls) : last.calls[j].api = "list_objects"}}

\* the page the object store answered a list_objects call with
PageOf(call) ==
    ListObjects(objects[call.bucket], call.prefix, call.marker, last.limit)

\* the marker the listing is to go on with after call: the last content key
\* of its page, or its own marker when the page holds no content key
MarkerAfter(call) ==
    IF PageOf(call).Contents = <<>> THEN call.marker
    ELSE PageOf(call).Contents[Len(PageOf(call).Contents)]

\* one invocation drains its prefix: the first marker is empty, every call
\* but the last was answered IsTruncated and followed by a call with the
\* marker due, and the last call was answered with the final page
Drained(listing) ==
    /\ listing # <<>>
    /\ listing[1].marker = <<>>
    /\ \A k \in 1..(Len(listing) - 1) :
          /\ PageOf(listing[k]).IsTruncated
          /\ listing[k + 1].marker = MarkerAfter(listing[k])
    /\ ~PageOf(listing[Len(listing)]).IsTruncated

\* the errors a download meets when the store or the disk refuses a call
Refusals == {"RemoteError", "OSError"}

\* C6: when no call of a download is refused, every prefix _download_tos
\* lists is drained: N truncated pages and a final one take N+1 list_objects
\* calls, the first with an empty marker, call k+1 with the last content key
\* of page k, or with the marker of call k when page k held no content key.
C6_PaginationDrainsEveryPrefix ==
    (last.op = "download" /\ last.cause \notin Refusals) =>
        \A loop \in Loops : Drained(ListCallsOf(loop))

\* C6, its case: a download stopped on a truncated page that held common
\* prefixes only
C6_Witness ==
    /\ last.op = "download"
    /\ last.cause = "LookupError"
    /\ \E loop \in Loops :
          LET listing == ListCallsOf(loop)
          IN  /\ PageOf(listing[Len(listing)]).IsTruncated
              /\ PageOf(listing[Len(listing)]).Contents = <<>>
              /\ PageOf(listing[Len(listing)]).CommonPrefixes # <<>>

\* the files below directory p with their contents, by their path below p
TreeOf(f, p) ==
    [r \in FilesUnder(f, p) |-> f.files[Lookup(f, p) \o r]]

\* C7: a download into a directory that does not exist yet, right after the
\* register() that uploaded the tree below local_path, succeeds unless a
\* remote call fails, and leaves below the destination the files of the
\* uploaded tree under the same relative paths with the same contents, no
\* more and no fewer, whatever else the bucket holds under the key prefix.
C7_UploadDownloadRoundTrip ==
    [][(/\ last.op = "register" /\ last.err = "none"
        /\ last'.op = "download" /\ last'.cause # "RemoteError"
        /\ ~Exists(fs, last'.args.local_path)) =>
          (/\ last'.err = "none"
           /\ TreeOf(fs', last'.args.local_path) = TreeOf(fs, self.local_path))]_vars

\* C7, its case: the download after a register() succeeded and left a file
\* the uploaded tree does not have
C7_Witness ==
    /\ last.op = "download"
    /\ last.err = "none"
    /\ self.local_path = DirD
    /\ \E r \in FilesUnder(fs, DirD) : r \notin FilesUnder(fs, DirM)

\* the destinations of the download_file calls of a log
Fetched(calls) ==
    {calls[i].dest :
        i \in {j \in 1..Len(calls) : calls[j].api = "download_file"}}

\* C8: a download that follows a successful download, with the bucket and
\* the page size unchanged, succeeds unless a remote call fails, leaves the
\* disk as the first left it, and fetches only files that were there.
C8_DownloadTwiceSameTree ==
    [][(/\ last.op = "download" /\ last.err = "none"
        /\ last'.op = "download" /\ last'.cause # "RemoteError"
        /\ last'.limit = last.limit
        /\ last'.args = last.args) =>
          (/\ last'.err = "none"
           /\ fs' = fs
           /\ \A dest \in Fetched(last'.calls) : IsFile(fs, dest))]_vars

\* C8, its case: a download right after a successful download has succeeded
\* and fetched files, sub-directories included
C8_Witness ==
    /\ last.prev = [op |-> "download", err |-> "none"]
    /\ last.op = "download"
    /\ last.err = "none"
    /\ ops = 4
    /\ self.model_version = 1
    /\ Cardinality(Fetched(last.calls)) >= 2
    /\ IsDir(fs, DirD \o <<"/", "s">>)

\* the positions of the calls of a log to one api
CallsTo(calls, api) == {i \in 1..Len(calls) : calls[i].api = api}

\* C9: a register() that succeeds on a handle without model_id issues one
\* create_model call, after every upload; its path is tos://<bucket>/<prefix>
\* with the bucket and the key prefix get_tos_upload_path answered, followed
\* by the directory's name and no trailing slash; the handle's model_id and
\* model_version are those of the version the registry created.
C9_RegisterNewCreatesOnce ==
    [][(self.model_id = None /\ last'.op = "register" /\ last'.err = "none") =>
          (/\ Cardinality(CallsTo(last'.calls, "create_model")) = 1
           /\ last'.calls[Len(last'.calls)].api = "create_model"
           /\ CallsTo(last'.calls, "upload_file") # {}
           /\ last'.calls[Len(last'.calls)].path =
                 <<"t", "o", "s", ":", "/", "/">> \o Bucket \o <<"/">>
                    \o KeyPrefix \o <<"m">>
           /\ self'.remote_path = last'.calls[Len(last'.calls)].path
           /\ \E v \in registry'.versions \ registry.versions :
                 /\ v.ModelID = self'.model_id
                 /\ v.ModelVersion = self'.model_version
                 /\ v.Path = self'.remote_path)]_vars

\* C9, its case: a new model has been registered from a directory with a
\* sub-directory, two uploads before the create_model call
C9_Witness ==
    /\ last.op = "register"
    /\ last.err = "none"
    /\ ops = 2
    /\ self.model_id = <<"m2">>
    /\ self.model_version = 1
    /\ Cardinality(CallsTo(last.calls, "upload_file")) = 2
    /\ Cardinality(CallsTo(last.calls, "create_model")) = 1

\* the operations that wrap what their remote calls raise
Wrapping ==
    {"register", "download", "unregister", "unregister_all_versions", "explain"}

\* C10: the exception of a failed registry or object-storage call never
\* leaves register, download, unregister, unregister_all_versions or explain
\* as it was raised: the caller gets the generic 'Model is invalid' error.
C10_RemoteErrorsWrapped ==
    (last.op \in Wrapping /\ last.err # "none"
        /\ "RemoteError" \in {last.err, last.cause}) =>
        (last.err = "ModelInvalid" /\ last.cause = "RemoteError")

\* C10, its case: unregister() let the error of a failed get_model through
C10_Witness ==
    /\ last.op = "unregister"
    /\ last.err = "RemoteError"
    /\ Len(last.calls) = 1
    /\ last.calls[1].api = "get_model"

\* the keys of the download_file calls of a log
FetchedKeys(calls) ==
    {calls[i].key :
        i \in {j \in 1..Len(calls) : calls[j].api = "download_file"}}

\* the keys of the objects the store holds under the location path
KeysUnder(store, path) ==
    {k \in DOMAIN store[Bucket] :
        StartsWith(FormatTos(Bucket, k), path \o <<"/">>)}

\* the entries the registry holds for version ver of model mid
EntriesOf(reg, mid, ver) ==
    {e \in reg.versions : e.ModelID = mid /\ e.ModelVersion = ver}

\* C11: a download(model_version=v) that succeeds on a handle with a
\* model_id, v being a version the registry holds, fetches the objects under
\* the Path the registry holds for v, whatever version the handle referred
\* to before.
C11_DownloadVersionFetchesItsPath ==
    [][(/\ last'.op = "download" /\ last'.err = "none"
        /\ self.model_id # None
        /\ last'.args.model_version # NoneNum) =>
          \A e \in EntriesOf(registry, self.model_id,
                             last'.args.model_version) :
              FetchedKeys(last'.calls) = KeysUnder(objects, e.Path)]_vars

\* C11, its case: download(model_version=2) has fetched the object of
\* version 1 and none of version 2
C11_Witness ==
    /\ last.op = "download"
    /\ last.err = "none"
    /\ last.args.model_version = 2
    /\ self.model_id = <<"m1">>
    /\ EntriesOf(registry, <<"m1">>, 2) # {}
    /\ FetchedKeys(last.calls) = {<<"p", "/", "o", "/", "a">>}

\* the entries of the registry a sync of the handle h resolves to: the
\* latest version of its model when it holds no version, else its version
SyncedEntries(reg, h) ==
    {e \in reg.versions :
        /\ e.ModelID = h.model_id
        /\ IF h.model_version = NoneNum
           THEN \A u \in reg.versions :
                   u.ModelID = h.model_id => u.ModelVersion <= e.ModelVersion
           ELSE e.ModelVersion = h.model_version}

\* C12: an unregister() that succeeds on a registered handle issues one
\* delete_model_version call, for the model and the version id the sync
\* resolved, and leaves model_version, model_version_id and remote_path None
\* and model_id as it was; an unregister_all_versions() that succeeds issues
\* one delete_model call and leaves these three and model_id None; when the
\* delete call fails, no field is cleared.
C12_UnregisterFrame ==
    [][/\ (last'.op = "unregister" /\ self.model_id # None
              /\ last'.err = "none") =>
             (/\ Cardinality(CallsTo(last'.calls, "delete_model_version")) = 1
              /\ CallsTo(last'.calls, "delete_model") = {}
              /\ \E e \in SyncedEntries(registry, self) :
                    /\ last'.calls[Len(last'.calls)] =
                          [api |-> "delete_model_version",
                           model_id |-> self.model_id,
                           model_version_id |-> e.ModelVersionID]
                    /\ registry'.versions = registry.versions \ {e}
              /\ self' = [self EXCEPT !.model_version = NoneNum,
                                      !.model_version_id = NoneNum,
                                      !.remote_path = None,
                                      !.model_name = self'.model_name,
                                      !.model_format = self'.model_format,
                                      !.model_type = self'.model_type])
       /\ (last'.op = "unregister_all_versions" /\ self.model_id # None
              /\ last'.err = "none") =>
             (/\ last'.calls = <<[api |-> "delete_model",
                                 model_id |-> self.model_id]>>
              /\ self' = [self EXCEPT !.model_id = None,
                                      !.model_version = NoneNum,
                                      !.model_version_id = NoneNum,
                                      !.remote_path = None])
       /\ (last'.op = "unregister" /\ last'.err = "ModelInvalid") =>
             (/\ self'.model_id = self.model_id
              /\ self'.model_version # NoneNum
              /\ self'.model_version_id # NoneNum
              /\ self'.remote_path # None
              /\ registry' = registry)
       /\ (last'.op = "unregister_all_versions"
              /\ last'.err = "ModelInvalid") =>
             (self' = self /\ registry' = registry)]_vars

\* C12, its case: unregister() has deleted version 2 of m1 and cleared the
\* version fields of a handle that keeps its model_id
C12_Witness ==
    /\ last.op = "unregister"
    /\ last.err = "none"
    /\ Len(last.calls) = 2
    /\ last.calls[2].api = "delete_model_version"
    /\ self.model_id = <<"m1">>
    /\ self.model_version = NoneNum
    /\ self.remote_path = None
    /\ EntriesOf(registry, <<"m1">>, 2) = {}

\* C13: in every state a call that returned leaves, a model_version_id that
\* is not None is the id the registry holds for the handle's model_version,
\* and a remote_path that is not None is the Path of that version: no call
\* that changes the version the handle refers to leaves the id or the path
\* of the version before.
C13_VersionFieldsOfOneVersion ==
    (constructed /\ last.err = "none") =>
        /\ self.model_version_id # NoneNum =>
              \E e \in EntriesOf(registry, self.model_id, self.model_version) :
                  e.ModelVersionID = self.model_version_id
        /\ self.remote_path # None =>
              \E e \in EntriesOf(registry, self.model_id, self.model_version) :
                  e.Path = self.remote_path

\* C13, its case: register() has created version 3 of m1 and the handle
\* still holds the model_version_id of version 2
C13_Witness ==
    /\ last.op = "register"
    /\ last.err = "none"
    /\ self.model_id = <<"m1">>
    /\ self.model_version = 3
    /\ self.model_version_id = 2
    /\ EntriesOf(registry, <<"m1">>, 3) # {}

\* C14: every Inference handle the inference_service map holds has been
\* created: when Inference.create() fails the map does not keep the new
\* handle, and a later deploy(force=False) does not return it.
C14_TrackedInferencesCreated ==
    constructed =>
        \A v \in DOMAIN self.inference_service :
            inferences[self.inference_service[v]].created

\* C14, its case: deploy(force=False) has returned, without calling
\* Inference.create, a handle whose creation had failed
C14_Witness ==
    /\ last.op = "deploy"
    /\ last.err = "none"
    /\ ~last.args.force
    /\ Creates(last.calls) = 0
    /\ ~inferences[last.ret].created

\* C15: an unregister() right after an unregister() that succeeded on a
\* registered handle issues no delete_model_version call: the two calls
\* delete one version at most.
C15_UnregisterTwiceDeletesOnce ==
    [][(/\ last.op = "unregister" /\ last.err = "none"
        /\ CallsTo(last.calls, "delete_model_version") # {}
        /\ last'.op = "unregister") =>
          CallsTo(last'.calls, "delete_model_version") = {}]_vars

\* C15, its case: the second of two unregister() calls in a row has deleted
\* a version as well, and the model has none left
C15_Witness ==
    /\ last.prev = [op |-> "unregister", err |-> "none"]
    /\ last.op = "unregister"
    /\ last.err = "none"
    /\ CallsTo(last.calls, "delete_model_version") # {}
    /\ {e \in registry.versions : e.ModelID = <<"m1">>} = {}

\* the location tos://bucket/key is path itself or lies under path/
AtOrUnder(bucket, key, path) ==
    \/ FormatTos(bucket, key) = path
    \/ StartsWith(FormatTos(bucket, key), path \o <<"/">>)

\* the file or directory with components r is base or lies below it
Inside(r, base) ==
    /\ base # ENOENT
    /\ Len(r) >= Len(base)
    /\ SubSeq(r, 1, Len(base)) = base

\* C16: a download of remote_path tos://<bucket>/<key> lists and fetches
\* only at <key> or under <key>/, and every file and directory it creates
\* lies inside local_path: nothing of a sibling prefix such as <key>2/ is
\* listed into, fetched or written outside local_path.
C16_DownloadStaysUnderKeyAndPath ==
    [][last'.op = "download" =>
          /\ \A i \in CallsTo(last'.calls, "download_file") :
                AtOrUnder(last'.calls[i].bucket, last'.calls[i].key,
                          self'.remote_path)
          /\ \A i \in CallsTo(last'.calls, "list_objects") :
                AtOrUnder(last'.calls[i].bucket, last'.calls[i].prefix,
                          self'.remote_path)
          /\ \A r \in (DOMAIN fs'.files \ DOMAIN fs.files)
                         \cup (fs'.dirs \ fs.dirs) :
                Inside(r, Lookup(fs', self'.local_path))]_vars

\* C16, its case: a download of tos://bk/p/m into /w/d has succeeded having
\* fetched p/m2/x and written it to /w/m2/x
C16_Witness ==
    /\ last.op = "download"
    /\ last.err = "none"
    /\ self.local_path = DirD
    /\ self.remote_path = FormatTos(Bucket, <<"p", "/", "m">>)
    /\ <<"p", "/", "m", "2", "/", "x">> \in FetchedKeys(last.calls)
    /\ << <<"w">>, <<"m", "2">>, <<"x">> >> \in DOMAIN fs.files

\* C17: a download(model_version, local_path) on a handle whose model_id is
\* None fails with ValueError, issues no remote call and leaves the handle
\* as it was, local_path and model_version included.
C17_DownloadUnregisteredNoChange ==
    [][(self.model_id = None /\ last'.op = "download") =>
          (/\ last'.err = "ValueError"
           /\ last'.calls = <<>>
           /\ self' = self)]_vars

\* C17, its case: the first call on a handle constructed on /w/m was a
\* download(2, '/w/d') that failed on the missing model_id and left its
\* arguments in the handle
C17_Witness ==
    /\ last.op = "download"
    /\ last.prev = [op |-> "init", err |-> "none"]
    /\ last.args = [model_version |-> 2, local_path |-> DirD]
    /\ last.err = "ValueError"
    /\ self.model_id = None
    /\ self.model_version = 2
    /\ self.local_path = DirD
    /\ IsDir(fs, DirM) /\ ~Exists(fs, DirD)

====
